---- MODULE Spec2Model ----
(***************************************************************************)
(* A model of streamlit.py: a Streamlit page that lists a region's         *)
(* trending YouTube videos, shows one video's details and comments and     *)
(* answers a question about it, either through an OpenAI chat completion   *)
(* or through a local keyword search.                                      *)
(*                                                                         *)
(* A Python str is a sequence of characters, a character a one-element     *)
(* TLA+ string.  A Hangul syllable of a literal of the source is written   *)
(* as its romanisation ("je", "mok"): one sequence element per character.  *)
(* The two long messages of lines 132 and 173 are kept as one symbol each. *)
(***************************************************************************)
EXTENDS Integers, Sequences, FiniteSets, TLC

VARIABLES
    \* the process environment, read at the top of every script run
    openai_importable,      \* import openai succeeds
    openai_api_key,         \* OPENAI_API_KEY is set
    API_KEY,                \* YT_API_KEY is set
    \* the widgets, kept by Streamlit from one script run to the next
    region,
    use_openai,
    include_top30_context,
    selected_index,         \* the option chosen in the selectbox
    user_question,
    button,                 \* st.button: true in the run its click starts
    \* st.cache_data
    trending_cache,
    comments_cache,
    \* the script run
    pc,
    OPENAI_AVAILABLE,
    trending_videos,
    selected_video,
    comments,
    contexts,
    answer,
    log,                    \* the run's upstream calls and rendered elements, in order
    \* a function applied on its own
    call,                   \* its arguments
    ret                     \* what it returned

envVars == <<openai_importable, openai_api_key, API_KEY>>
widgetVars == <<region, use_openai, include_top30_context, selected_index, user_question, button>>
cacheVars == <<trending_cache, comments_cache>>
runVars == <<pc, OPENAI_AVAILABLE, trending_videos, selected_video, comments, contexts, answer, log>>
pageVars == <<envVars, widgetVars, cacheVars, runVars>>
fnVars == <<call, ret>>
vars == <<pageVars, fnVars>>

Min(a, b) == IF a < b THEN a ELSE b

NoRet == [kind |-> "none"]

(***************************************************************************)
(* Python's str operations, as far as the page uses them.                  *)
(***************************************************************************)
Whitespace == {" ", "\n", "\t"}

\* str.lower(), character by character, over the letters the inputs use
LowerChar(c) ==
    CASE c = "A" -> "a"
      [] c = "B" -> "b"
      [] c = "C" -> "c"
      [] c = "D" -> "d"
      [] c = "E" -> "e"
      [] c = "X" -> "x"
      [] c = "Y" -> "y"
      [] c = "Z" -> "z"
      [] OTHER -> c

Lower(w) == [i \in 1..Len(w) |-> LowerChar(w[i])]

\* s[:n]
Slice(s, n) == SubSeq(s, 1, Min(n, Len(s)))

\* str.split() without arguments: the maximal runs of non-whitespace, in order
RECURSIVE SplitFrom(_, _, _)
SplitFrom(s, i, cur) ==
    IF i > Len(s)
    THEN IF cur = <<>> THEN <<>> ELSE <<cur>>
    ELSE IF s[i] \in Whitespace
         THEN (IF cur = <<>> THEN <<>> ELSE <<cur>>) \o SplitFrom(s, i + 1, <<>>)
         ELSE SplitFrom(s, i + 1, Append(cur, s[i]))

Split(s) == SplitFrom(s, 1, <<>>)

\* str.strip(chars): drops the characters of chars from both ends
RECURSIVE LStrip(_, _)
LStrip(w, chars) ==
    IF w # <<>> /\ Head(w) \in chars THEN LStrip(Tail(w), chars) ELSE w

RECURSIVE RStrip(_, _)
RStrip(w, chars) ==
    IF w # <<>> /\ w[Len(w)] \in chars
    THEN RStrip(SubSeq(w, 1, Len(w) - 1), chars)
    ELSE w

Strip(w, chars) == RStrip(LStrip(w, chars), chars)

\* str.strip(): whitespace from both ends
StripSpace(s) == Strip(s, Whitespace)

\* sep.join(parts)
RECURSIVE Join(_, _)
Join(sep, parts) ==
    IF parts = <<>> THEN <<>>
    ELSE IF Len(parts) = 1 THEN parts[1]
    ELSE parts[1] \o sep \o Join(sep, Tail(parts))

Range(f) == {f[i] : i \in DOMAIN f}

(***************************************************************************)
(* The literals of the source.                                             *)
(***************************************************************************)
SrcTop30 == <<"T", "o", "p", "3", "0", " ", "mok", "rok">>
SrcTitle == <<"je", "mok">>
SrcDesc == <<"seol", "myeong">>
SrcComments == <<"daet", "geul">>

Punctuation == {".", ",", "?", "!"}

NotFoundMessage == <<"NOT_FOUND: ask more specifically; set OPENAI_API_KEY and turn on the OpenAI chatbot">>
FoundHeader == <<"gwan", "ryeon", " ", "mun", "jang", ":", "\n", "\n">>
SnippetSeparator == <<"\n", "\n", "-", "-", "-", "\n", "\n">>
OpenAIErrorPrefix == <<"OPENAI_ERROR: ">>

\* f"[{source}] {text}"
Block(ctx) == <<"[">> \o ctx.source \o <<"]", " ">> \o ctx.text

(***************************************************************************)
(* keyword_search_answer                                                   *)
(***************************************************************************)
max_snippets == 5

\* the question's words longer than 2 characters, lowercased
QWords(query) == {Lower(w) : w \in {x \in Range(Split(query)) : Len(x) > 2}}

\* the snippet's words, lowercased, .,?! stripped from both ends
TextWords(text) == {Strip(Lower(w), Punctuation) : w \in Range(Split(text))}

Score(query, ctx) == Cardinality(QWords(query) \cap TextWords(ctx.text))

\* as if line 128 read `score >= 0`
RECURSIVE ScoredAll(_, _)
ScoredAll(query, ctxs) ==
    IF ctxs = <<>> THEN <<>>
    ELSE <<<<Score(query, Head(ctxs)), Head(ctxs)>>>> \o ScoredAll(query, Tail(ctxs))

\* the (score, ctx) pairs with score > 0, in the order of contexts
RECURSIVE Scored(_, _)
Scored(query, ctxs) ==
    IF ctxs = <<>> THEN <<>>
    ELSE LET s == Score(query, Head(ctxs))
         IN  (IF s > 0 THEN <<<<s, Head(ctxs)>>>> ELSE <<>>)
             \o Scored(query, Tail(ctxs))

\* as if the sort put a later snippet before an earlier one of the same score
RECURSIVE InsertDescUnstable(_, _)
InsertDescUnstable(sorted, e) ==
    IF sorted = <<>> THEN <<e>>
    ELSE IF Head(sorted)[1] > e[1]
         THEN <<Head(sorted)>> \o InsertDescUnstable(Tail(sorted), e)
         ELSE <<e>> \o sorted

\* list.sort(key=score, reverse=True): stable, equal scores keep their order
RECURSIVE InsertDesc(_, _)
InsertDesc(sorted, e) ==
    IF sorted = <<>> THEN <<e>>
    ELSE IF Head(sorted)[1] >= e[1]
         THEN <<Head(sorted)>> \o InsertDesc(Tail(sorted), e)
         ELSE <<e>> \o sorted

RECURSIVE SortDesc(_)
SortDesc(scored) ==
    IF scored = <<>> THEN <<>>
    ELSE InsertDesc(SortDesc(SubSeq(scored, 1, Len(scored) - 1)), scored[Len(scored)])

keyword_search_answer(query, ctxs) ==
    LET scored == SortDesc(Scored(query, ctxs))
        top == Slice(scored, max_snippets)
        snippets == [i \in 1..Len(top) |-> Block(top[i][2])]
    IN  IF scored = <<>>
        THEN NotFoundMessage
        ELSE FoundHeader \o Join(SnippetSeparator, snippets)

(***************************************************************************)
(* openai_chat_answer: the context block of the prompt.                    *)
(***************************************************************************)
context_limit == 7000

\* as if line 151 kept the last 7000 characters
ContextBlockTail(ctxs) ==
    LET joined == Join(<<"\n", "\n">>, [i \in 1..Len(ctxs) |-> Block(ctxs[i])])
    IN  SubSeq(joined, Len(joined) - Min(context_limit, Len(joined)) + 1, Len(joined))

\* "\n\n".join(ctx_texts)[:7000]
ContextBlock(ctxs) ==
    Slice(Join(<<"\n", "\n">>, [i \in 1..Len(ctxs) |-> Block(ctxs[i])]), context_limit)

(***************************************************************************)
(* The context of a question, lines 229-263.                               *)
(***************************************************************************)
description_limit == 2000
comment_limit == 10

Digit == <<"0", "1", "2", "3", "4", "5", "6", "7", "8", "9">>

\* str(n) of a natural number
RECURSIVE DigitsOf(_)
DigitsOf(n) ==
    IF n < 10 THEN <<Digit[n + 1]>> ELSE Append(DigitsOf(n \div 10), Digit[(n % 10) + 1])

\* f"{idx}. {v['title']} -- {v['channel_title']}" ("emdash": the dash of line 235)
Top30Line(idx, v) ==
    DigitsOf(idx) \o <<".", " ">> \o v.title \o <<" ", "emdash", " ">> \o v.channel_title

\* f"{c['author']}: {c['text']}"
CommentLine(c) == c.author \o <<":", " ">> \o c.text

\* as if line 259 took every comment
AllCommentLines(cmts) == [i \in 1..Len(cmts) |-> CommentLine(cmts[i])]

\* line 259: the lines of the first ten comments
TopCommentLines(cmts) == [i \in 1..Len(Slice(cmts, comment_limit)) |-> CommentLine(cmts[i])]

Assemble(video, trending, cmts, include_top30) ==
    (IF include_top30
     THEN <<[source |-> SrcTop30,
             text |-> Join(<<"\n">>, [i \in 1..Len(trending) |-> Top30Line(i, trending[i])])]>>
     ELSE <<>>)
    \o <<[source |-> SrcTitle, text |-> video.title]>>
    \o (IF video.description # <<>>
        THEN <<[source |-> SrcDesc, text |-> Slice(video.description, description_limit)]>>
        ELSE <<>>)
    \o (IF cmts # <<>>
        THEN <<[source |-> SrcComments,
                text |-> Join(<<"\n">>, TopCommentLines(cmts))]>>
        ELSE <<>>)

(***************************************************************************)
(* The upstream services: what a call may answer.                          *)
(***************************************************************************)
\* the videos the platform ranks in region KR, best first (counts and thumbnail
\* are only rendered); it ranks none in region US
Catalogue ==
    << [video_id |-> "v1", title |-> <<"a", "b", "c", " ", "x", "y", "z">>,
        channel_title |-> <<"c", "h">>, description |-> <<>>],
       [video_id |-> "v2", title |-> <<"d", "e", "f">>,
        channel_title |-> <<"c", "h">>, description |-> <<"A", "b", "c", ".", " ", "d", "e">>] >>

VideoIds == {Catalogue[i].video_id : i \in DOMAIN Catalogue}

Regions == {"KR", "US"}

Trending(region_code) == IF region_code = "KR" THEN Catalogue ELSE <<>>

NoVideo == [video_id |-> "none", title |-> <<>>, channel_title |-> <<>>, description |-> <<>>]

\* the n-th top-level comment of a video
Comment(n) ==
    [author |-> <<"u">> \o DigitsOf(n),
     text |-> IF n % 2 = 1 THEN <<"x", "y", "z", "!">> ELSE <<"d", "e">>,
     like_count |-> n]

Thread(n) == [i \in 1..n |-> Comment(i)]

MaxThreads == 1

\* the top-level comments of a video: v1 has MaxThreads of them, any other none
CommentCount(video_id) == IF video_id = "v1" THEN MaxThreads ELSE 0

\* how an upstream call of the YouTube client fails: an HTTP error status
\* (googleapiclient.errors.HttpError), or no HTTP response at all
HttpFailures == {"quotaExceeded", "forbidden", "commentsDisabled"}
NetworkFailures == {"network"}

\* the exception class request.execute() raises for a failure
RaisedBy(failure) == IF failure \in HttpFailures THEN "HttpError" ELSE "ServerNotFoundError"

NoExc == [type |-> "none", where |-> "none", cause |-> "none"]
Nothing == [none |-> TRUE]

Event(ev, arg) == [ev |-> ev, arg |-> arg]

(***************************************************************************)
(* get_trending_videos, under st.cache_data: the outcomes of one call.     *)
(***************************************************************************)
max_results_trending == 30

\* what videos().list(...).execute() may do: fail, or answer items
VideosListResponses(region_code, max_results) ==
    {[failure |-> f, items |-> <<>>, malformed |-> FALSE] : f \in (HttpFailures \ {"commentsDisabled"}) \cup NetworkFailures}
    \cup {[failure |-> "none", items |-> Slice(Trending(region_code), max_results), malformed |-> FALSE]}
    \cup {[failure |-> "none", items |-> <<>>, malformed |-> TRUE]}

TrendingOutcome(region_code, r) ==
    LET called == <<Event("videos.list", [regionCode |-> region_code])>>
    IN  IF r.failure # "none"
        THEN \* only HttpError is turned into RuntimeError (lines 67-68)
             [raised |-> TRUE, value |-> <<>>, calls |-> called, cache |-> trending_cache,
              exc |-> [type |-> IF RaisedBy(r.failure) = "HttpError" THEN "RuntimeError" ELSE RaisedBy(r.failure),
                       where |-> "get_trending_videos", cause |-> r.failure]]
        ELSE IF r.malformed
        THEN \* an item without 'id': line 72
             [raised |-> TRUE, value |-> <<>>, calls |-> called, cache |-> trending_cache,
              exc |-> [type |-> "KeyError", where |-> "get_trending_videos", cause |-> "id"]]
        ELSE [raised |-> FALSE, value |-> r.items, calls |-> called, exc |-> NoExc,
              cache |-> [trending_cache EXCEPT ![region_code] = [hit |-> TRUE, value |-> r.items]]]

\* an entry younger than its ttl (300 s) is returned; an older one counts as absent
get_trending_videos(region_code) ==
    (IF trending_cache[region_code].hit
     THEN {[raised |-> FALSE, value |-> trending_cache[region_code].value, calls |-> <<>>,
            exc |-> NoExc, cache |-> trending_cache]}
     ELSE {})
    \cup {TrendingOutcome(region_code, r) : r \in VideosListResponses(region_code, max_results_trending)}

(***************************************************************************)
(* get_video_comments, under st.cache_data: the outcomes of one call.      *)
(***************************************************************************)
max_results_panel == 10
max_results_question == 20
max_results_ceiling == 100

CommentKeys == VideoIds \X {max_results_panel, max_results_question}

\* what commentThreads().list(...).execute() may do
CommentThreadsResponses(video_id, max_results) ==
    {[failure |-> f, items |-> <<>>] : f \in HttpFailures \cup NetworkFailures}
    \cup {[failure |-> "none",
            items |-> Thread(Min(Min(max_results, max_results_ceiling), CommentCount(video_id)))]}

\* the exceptions get_video_comments catches and answers with []: line 112
CommentsCatches(type) == type = "HttpError"

CommentsOutcome(video_id, max_results, r) ==
    LET key == <<video_id, max_results>>
        called == <<Event("commentThreads.list",
                          [videoId |-> video_id, maxResults |-> Min(max_results, max_results_ceiling)])>>
    IN  IF r.failure # "none" /\ ~CommentsCatches(RaisedBy(r.failure))
        THEN [raised |-> TRUE, value |-> <<>>, calls |-> called, cache |-> comments_cache,
              exc |-> [type |-> RaisedBy(r.failure), where |-> "get_video_comments", cause |-> r.failure]]
        ELSE [raised |-> FALSE, value |-> r.items, calls |-> called, exc |-> NoExc,
              cache |-> [comments_cache EXCEPT ![key] = [hit |-> TRUE, value |-> r.items]]]

\* an entry younger than its ttl (300 s) is returned; an older one counts as absent
get_video_comments(video_id, max_results) ==
    (IF comments_cache[<<video_id, max_results>>].hit
     THEN {[raised |-> FALSE, value |-> comments_cache[<<video_id, max_results>>].value, calls |-> <<>>,
            exc |-> NoExc, cache |-> comments_cache]}
     ELSE {})
    \cup {CommentsOutcome(video_id, max_results, r) : r \in CommentThreadsResponses(video_id, max_results)}

(***************************************************************************)
(* openai_chat_answer: the outcomes of one call.                           *)
(***************************************************************************)
\* what openai.ChatCompletion.create(...) may do
CompletionFailures == {"network", "auth", "rate_limit", "malformed"}
CompletionResponses == {"ok"} \cup CompletionFailures

ModelAnswer == <<"MODEL_ANSWER">>

\* as if the try of line 160 ended before the response is read (line 170)
ChatCatchesCallOnly(failure) == failure \in CompletionFailures \ {"malformed"}

\* the exceptions openai_chat_answer turns into an answer: line 172
ChatCatches(failure) == failure \in CompletionFailures

ChatOutcome(question, ctxs, r) ==
    LET called == <<Event("ChatCompletion.create",
                          [question |-> question, context_block |-> ContextBlock(ctxs), failure |-> r])>>
    IN  IF r = "ok"
        THEN [raised |-> FALSE, value |-> ModelAnswer, calls |-> called, exc |-> NoExc]
        ELSE IF ChatCatches(r)
        THEN [raised |-> FALSE, value |-> OpenAIErrorPrefix \o <<r>>, calls |-> called, exc |-> NoExc]
        ELSE [raised |-> TRUE, value |-> <<>>, calls |-> called,
              exc |-> [type |-> "OpenAIError", where |-> "openai_chat_answer", cause |-> r]]

openai_chat_answer(question, ctxs) ==
    IF ~OPENAI_AVAILABLE
    THEN {[raised |-> TRUE, value |-> <<>>, calls |-> <<>>,
           exc |-> [type |-> "RuntimeError", where |-> "openai_chat_answer", cause |-> "unavailable"]]}
    ELSE {ChatOutcome(question, ctxs, r) : r \in CompletionResponses}

(***************************************************************************)
(* The page: one script run per interaction, top to bottom.                *)
(***************************************************************************)
PageQuestions == {<<>>, <<" ">>, <<"A", "B", "C", " ", "d", "e">>}

NoEntry == [hit |-> FALSE, value |-> <<>>]

PageInit ==
    /\ openai_importable \in BOOLEAN
    /\ openai_api_key \in BOOLEAN
    /\ API_KEY \in BOOLEAN
    /\ region = "KR"
    /\ use_openai = FALSE
    /\ include_top30_context = TRUE
    /\ selected_index = 1
    /\ user_question = <<>>
    /\ button = FALSE
    /\ trending_cache = [r \in Regions |-> NoEntry]
    /\ comments_cache = [k \in CommentKeys |-> NoEntry]
    /\ pc = "top"
    /\ OPENAI_AVAILABLE = FALSE
    /\ trending_videos = <<>>
    /\ selected_video = NoVideo
    /\ comments = <<>>
    /\ contexts = <<>>
    /\ answer = <<>>
    /\ log = <<>>

\* Streamlit runs the script again, from the top
Rerun(clicked) ==
    /\ button' = clicked
    /\ pc' = "top"
    /\ OPENAI_AVAILABLE' = FALSE
    /\ trending_videos' = <<>>
    /\ selected_video' = NoVideo
    /\ comments' = <<>>
    /\ contexts' = <<>>
    /\ answer' = <<>>
    /\ log' = <<>>
    /\ UNCHANGED <<envVars, cacheVars, fnVars>>

ChangeRegion ==
    /\ pc = "idle"
    /\ \E r \in Regions \ {region} : region' = r
    /\ UNCHANGED <<use_openai, include_top30_context, selected_index, user_question>>
    /\ Rerun(FALSE)

ToggleOpenAI ==
    /\ pc = "idle"
    /\ use_openai' = ~use_openai
    /\ UNCHANGED <<region, include_top30_context, selected_index, user_question>>
    /\ Rerun(FALSE)

ToggleTop30 ==
    /\ pc = "idle"
    /\ include_top30_context' = ~include_top30_context
    /\ UNCHANGED <<region, use_openai, selected_index, user_question>>
    /\ Rerun(FALSE)

SelectVideo ==
    /\ pc = "idle"
    /\ \E i \in (1..Len(trending_videos)) \ {selected_index} : selected_index' = i
    /\ UNCHANGED <<region, use_openai, include_top30_context, user_question>>
    /\ Rerun(FALSE)

TypeQuestion ==
    /\ pc = "idle"
    /\ "st.text_input" \in {log[i].ev : i \in DOMAIN log}
    /\ \E q \in PageQuestions \ {user_question} : user_question' = q
    /\ UNCHANGED <<region, use_openai, include_top30_context, selected_index>>
    /\ Rerun(FALSE)

ClickAsk ==
    /\ pc = "idle"
    /\ "st.button" \in {log[i].ev : i \in DOMAIN log}
    /\ UNCHANGED <<region, use_openai, include_top30_context, selected_index, user_question>>
    /\ Rerun(TRUE)

\* as if line 276 read `except RuntimeError`
TopLevelCatchesRuntimeError(type) == type = "RuntimeError"

\* the exception classes `except Exception` catches: every class the run can raise
TopLevelCatches(type) ==
    type \in {"RuntimeError", "HttpError", "ServerNotFoundError", "KeyError", "OpenAIError"}

\* lines 276-278, entered with the elements rendered so far
TopLevel(exc, rendered) ==
    IF TopLevelCatches(exc.type)
    THEN /\ log' = rendered \o <<Event("st.error", exc), Event("st.write:hint", Nothing)>>
         /\ pc' = "idle"
    ELSE /\ log' = rendered
         /\ pc' = "crashed"

\* as if lines 27-32 were missing
OpenAIAvailableWithoutKey == openai_importable

\* lines 17-53
OpenAIAvailable == openai_importable /\ openai_api_key

ScriptTop ==
    /\ pc = "top"
    /\ OPENAI_AVAILABLE' = OpenAIAvailable
    /\ LET warned == IF use_openai /\ ~OpenAIAvailable
                     THEN <<Event("st.sidebar.warning", Nothing)>> ELSE <<>>
       IN  IF ~API_KEY
           THEN /\ log' = log \o warned \o <<Event("st.error:YT_API_KEY", Nothing)>>
                /\ pc' = "idle"
           ELSE /\ log' = log \o warned
                /\ pc' = "trending"
    /\ UNCHANGED <<envVars, widgetVars, cacheVars, trending_videos, selected_video,
                   comments, contexts, answer, fnVars>>

\* the option the selectbox returns: the chosen one, the first when it is gone
SelectedOption(videos) == IF selected_index \in DOMAIN videos THEN selected_index ELSE 1

\* as if line 179 tested `is not None`
HasVideosNotNone(videos) == TRUE

\* line 179: a list is true when it has an element
HasVideos(videos) == videos # <<>>

\* lines 177-202 and 273-274
FetchTrending ==
    /\ pc = "trending"
    /\ \E o \in get_trending_videos(region) :
          /\ trending_cache' = o.cache
          /\ IF o.raised
             THEN /\ TopLevel(o.exc, log \o o.calls)
                  /\ UNCHANGED <<trending_videos, selected_video>>
             ELSE /\ trending_videos' = o.value
                  /\ IF HasVideos(o.value)
                     THEN IF o.value = <<>>
                          THEN \* a selectbox without options returns None: line 185 raises
                               /\ selected_video' = selected_video
                               /\ TopLevel([type |-> "KeyError", where |-> "video_options", cause |-> "None"],
                                           log \o o.calls \o <<Event("st.selectbox", [index |-> 0])>>)
                          ELSE /\ selected_video' = o.value[SelectedOption(o.value)]
                               /\ log' = log \o o.calls
                                     \o <<Event("st.selectbox", [index |-> SelectedOption(o.value)]),
                                          Event("st.write:video", Nothing)>>
                               /\ pc' = "panel"
                     ELSE /\ selected_video' = selected_video
                          /\ log' = log \o o.calls \o <<Event("st.write:nodata", Nothing)>>
                          /\ pc' = "idle"
    /\ UNCHANGED <<envVars, widgetVars, comments_cache, OPENAI_AVAILABLE, comments,
                   contexts, answer, fnVars>>

\* lines 205-221
CommentsPanel ==
    /\ pc = "panel"
    /\ \E o \in get_video_comments(selected_video.video_id, max_results_panel) :
          /\ comments_cache' = o.cache
          /\ IF o.raised
             THEN /\ TopLevel(o.exc, log \o o.calls)
                  /\ comments' = comments
             ELSE /\ comments' = o.value
                  /\ log' = log \o o.calls
                        \o <<Event("st.expander:comments", [shown |-> Len(o.value)]),
                             Event("st.text_input", Nothing), Event("st.button", Nothing)>>
                  /\ pc' = "chat"
    /\ UNCHANGED <<envVars, widgetVars, trending_cache, OPENAI_AVAILABLE, trending_videos,
                   selected_video, contexts, answer, fnVars>>

\* as if line 224 read `not user_question`
IsBlankUnstripped(question) == question = <<>>

\* line 224: not user_question.strip()
IsBlank(question) == StripSpace(question) = <<>>

\* line 223, the button not clicked
ChatNotAsked ==
    /\ pc = "chat"
    /\ ~button
    /\ pc' = "idle"
    /\ UNCHANGED <<envVars, widgetVars, cacheVars, OPENAI_AVAILABLE, trending_videos,
                   selected_video, comments, contexts, answer, log, fnVars>>

\* lines 224-225
ChatEmptyQuestion ==
    /\ pc = "chat"
    /\ button
    /\ IsBlank(user_question)
    /\ log' = Append(log, Event("st.warning", Nothing))
    /\ pc' = "idle"
    /\ UNCHANGED <<envVars, widgetVars, cacheVars, OPENAI_AVAILABLE, trending_videos,
                   selected_video, comments, contexts, answer, fnVars>>

\* lines 227-263
ChatAssemble ==
    /\ pc = "chat"
    /\ button
    /\ ~IsBlank(user_question)
    /\ \E o \in get_video_comments(selected_video.video_id, max_results_question) :
          /\ comments_cache' = o.cache
          /\ IF o.raised
             THEN /\ TopLevel(o.exc, log \o o.calls)
                  /\ UNCHANGED <<comments, contexts>>
             ELSE /\ comments' = o.value
                  /\ contexts' = Assemble(selected_video, trending_videos, o.value, include_top30_context)
                  /\ log' = log \o o.calls \o <<Event("contexts", Nothing)>>
                  /\ pc' = "answer"
    /\ UNCHANGED <<envVars, widgetVars, trending_cache, OPENAI_AVAILABLE, trending_videos,
                   selected_video, answer, fnVars>>

\* line 266
UseModel == use_openai /\ OPENAI_AVAILABLE

\* lines 265-272
ChatAnswer ==
    /\ pc = "answer"
    /\ IF UseModel
       THEN \E o \in openai_chat_answer(user_question, contexts) :
               LET invoked == Append(log, Event("openai_chat_answer", Nothing)) \o o.calls
               IN  IF o.raised
                   THEN /\ TopLevel(o.exc, invoked)
                        /\ answer' = answer
                   ELSE /\ answer' = o.value
                        /\ log' = Append(invoked, Event("st.write:answer", o.value))
                        /\ pc' = "idle"
       ELSE LET a == keyword_search_answer(user_question, contexts)
            IN  /\ answer' = a
                /\ log' = log \o <<Event("keyword_search_answer", Nothing), Event("st.write:answer", a)>>
                /\ pc' = "idle"
    /\ UNCHANGED <<envVars, widgetVars, cacheVars, OPENAI_AVAILABLE, trending_videos,
                   selected_video, comments, contexts, fnVars>>

\* the page as it is before its first run, for a function applied on its own
PageFrozen ==
    /\ PageInit
    /\ ~openai_importable /\ ~openai_api_key /\ ~API_KEY

FnIdle == call = [fn |-> "none"] /\ ret = NoRet

Init == PageInit /\ FnIdle

Next ==
    \/ ChangeRegion
    \/ ToggleOpenAI
    \/ ToggleTop30
    \/ SelectVideo
    \/ TypeQuestion
    \/ ClickAsk
    \/ ScriptTop
    \/ FetchTrending
    \/ CommentsPanel
    \/ ChatNotAsked
    \/ ChatEmptyQuestion
    \/ ChatAssemble
    \/ ChatAnswer

Spec == Init /\ [][Next]_vars

(***************************************************************************)
(* The page's claims.  A run's log holds its upstream calls and rendered   *)
(* elements; the widgets do not change while a run lasts.                  *)
(***************************************************************************)
Evs == {log[i].ev : i \in DOMAIN log}

Strategies == {"openai_chat_answer", "keyword_search_answer"}

ModelCapability == openai_importable /\ openai_api_key

\* C1: in every run the model strategy is invoked only with the toggle on and
\* the capability present, the keyword strategy only otherwise, never both,
\* and a submission that reached its answer invoked one of them.
C1_StrategySelection ==
    /\ "openai_chat_answer" \in Evs => (use_openai /\ ModelCapability)
    /\ "keyword_search_answer" \in Evs => ~(use_openai /\ ModelCapability)
    /\ ("contexts" \in Evs /\ pc = "idle" /\ "st.error" \notin Evs) =>
            /\ (use_openai /\ ModelCapability) => "openai_chat_answer" \in Evs
            /\ ~(use_openai /\ ModelCapability) => "keyword_search_answer" \in Evs

\* the toggle on, the library importable, no key: the keyword strategy answered
C1_Witness ==
    /\ use_openai /\ openai_importable /\ ~openai_api_key
    /\ "keyword_search_answer" \in Evs
    /\ pc = "idle"

\* C2 as claimed: no exception of a run comes out of get_video_comments.
C2_CommentFetchNeverRaises ==
    /\ pc # "crashed"
    /\ \A i \in DOMAIN log : log[i].ev = "st.error" => log[i].arg.where # "get_video_comments"

\* C3: a failed completion call ends the run with its message, behind the
\* failure prefix, rendered as the answer, and without an error element.
C3_ModelFailureIsAnAnswer ==
    \A i \in DOMAIN log :
        (log[i].ev = "ChatCompletion.create" /\ log[i].arg.failure # "ok") =>
            /\ pc = "idle"
            /\ answer = OpenAIErrorPrefix \o <<log[i].arg.failure>>
            /\ log[Len(log)] = Event("st.write:answer", answer)
            /\ "st.error" \notin Evs

\* the completion call answered something that is no completion
C3_Witness ==
    /\ pc = "idle"
    /\ \E i \in DOMAIN log : log[i].ev = "ChatCompletion.create" /\ log[i].arg.failure = "malformed"
    /\ "st.write:answer" \in Evs

\* C4: no run ends on a raw exception; an exception is rendered as one error
\* element followed by the hint, which end the run; the trending call is made
\* once at most, and its failure leaves nothing else rendered after it.
C4_TopLevelCatch ==
    /\ pc # "crashed"
    /\ Cardinality({i \in DOMAIN log : log[i].ev = "st.error"}) <= 1
    /\ Cardinality({i \in DOMAIN log : log[i].ev = "videos.list"}) <= 1
    /\ \A i \in DOMAIN log :
          log[i].ev = "st.error" =>
              /\ pc = "idle"
              /\ i = Len(log) - 1
              /\ log[Len(log)].ev = "st.write:hint"
              /\ log[i].arg.where = "get_trending_videos" => log[i - 1].ev = "videos.list"

\* the trending call failed without an HTTP response
C4_Witness ==
    \E i \in DOMAIN log :
        /\ log[i].ev = "st.error"
        /\ log[i].arg.where = "get_trending_videos"
        /\ log[i].arg.type = "ServerNotFoundError"

\* the run is over and its trending fetch returned the empty list
FetchedNothing ==
    /\ pc = "idle"
    /\ API_KEY
    /\ trending_videos = <<>>
    /\ \A i \in DOMAIN log : log[i].ev = "st.error" => log[i].arg.where # "get_trending_videos"

\* C5: a run whose trending list is empty ends on the no-data element, and
\* selects no video, fetches no comments, assembles no context and invokes no
\* strategy.
C5_EmptyTrendingStops ==
    FetchedNothing =>
        /\ log[Len(log)].ev = "st.write:nodata"
        /\ selected_video = NoVideo
        /\ Evs \cap ({"st.selectbox", "commentThreads.list", "contexts", "ChatCompletion.create",
                      "st.write:answer", "st.error"} \cup Strategies) = {}

\* the platform was asked and ranked no video
C5_Witness == FetchedNothing /\ "videos.list" \in Evs /\ "st.write:nodata" \in Evs

\* the run of a click on the button with a blank question
BlankSubmission == button /\ StripSpace(user_question) = <<>>

\* C6 as claimed: the run of a blank submission invokes no strategy and makes
\* no comment or completion call.
C6_BlankSubmissionCallsNothing ==
    BlankSubmission =>
        Evs \cap ({"commentThreads.list", "ChatCompletion.create"} \cup Strategies) = {}

\* C6 as amended: the run of a blank submission invokes no strategy, assembles
\* no context and makes no completion call; its only comment call is the one
\* of the comments panel, made before the question is looked at; and it ends
\* on the warning.
C6_BlankSubmissionRejected ==
    BlankSubmission =>
        /\ Evs \cap ({"contexts", "ChatCompletion.create", "st.write:answer"} \cup Strategies) = {}
        /\ \A i \in DOMAIN log :
              log[i].ev = "commentThreads.list" =>
                  /\ log[i].arg.maxResults = max_results_panel
                  /\ \A j \in 1..i : log[j].ev # "st.button"
        /\ (pc = "idle" /\ "st.button" \in Evs) => log[Len(log)].ev = "st.warning"

\* a question of one blank was submitted and rejected, in a run that fetched
\* the panel's comments
C6_Witness ==
    /\ button
    /\ user_question = <<" ">>
    /\ pc = "idle"
    /\ "st.warning" \in Evs
    /\ "commentThreads.list" \in Evs

(***************************************************************************)
(* keyword_search_answer applied on its own to bounded questions and       *)
(* context lists.                                                          *)
(***************************************************************************)
MaxCtx == 7

KwQueries ==
    { <<" ", "d", "e">>,
      <<"a", "b", "c">>,
      <<"a", "b", "c", "?">>,
      <<"A", "B", "C", " ", "x", "y", "z">> }

KwSnippets ==
    { [source |-> SrcTop30, text |-> <<"1", ".", " ", "d", "e", "\n", "2", ".", " ", "a", ".", "b", "c">>],
      [source |-> SrcTitle, text |-> <<"a", "b", "c", " ", "x", "y", "z">>],
      [source |-> SrcDesc,  text |-> <<"!", "A", "b", "c", ".", " ", "a", "b", "c", "?">>] }

RECURSIVE SeqsUpTo(_, _)
SeqsUpTo(S, n) ==
    IF n = 0 THEN {<<>>}
    ELSE LET shorter == SeqsUpTo(S, n - 1)
         IN  shorter \cup {Append(s, x) : s \in {t \in shorter : Len(t) = n - 1}, x \in S}

KwInit ==
    /\ PageFrozen
    /\ call \in [fn : {"keyword_search_answer"}, query : KwQueries,
                 contexts : SeqsUpTo(KwSnippets, MaxCtx)]
    /\ ret = NoRet

KwCall ==
    /\ call.fn = "keyword_search_answer"
    /\ ret = NoRet
    /\ ret' = [kind |-> "value", value |-> keyword_search_answer(call.query, call.contexts)]
    /\ UNCHANGED <<call, pageVars>>

KwNext == KwCall

KwSpec == KwInit /\ [][KwNext]_vars

(***************************************************************************)
(* The context assembly of lines 229-263 applied on its own: descriptions  *)
(* around 2000 characters, comment lists around ten comments.              *)
(***************************************************************************)
MaxOver == 1

Letters == <<"a", "b", "c", " ", "D", "e", ".">>

\* a text of n characters
Filler(n) == [i \in 1..n |-> Letters[((i - 1) % Len(Letters)) + 1]]

AsmDescLens == {0, 1} \cup ((description_limit - 1)..(description_limit + MaxOver))
AsmCommentCounts == {0, 1} \cup ((comment_limit - 1)..(comment_limit + MaxOver))

\* the first n videos of the catalogue, the k-th with a description of d characters
AsmTrending(n, k, d) ==
    [i \in 1..n |-> IF i = k THEN [Catalogue[i] EXCEPT !.description = Filler(d)] ELSE Catalogue[i]]

AsmInit ==
    /\ PageFrozen
    /\ \E n \in 1..Len(Catalogue) : \E k \in 1..n : \E d \in AsmDescLens :
       \E c \in AsmCommentCounts : \E flag \in BOOLEAN :
          call = [fn |-> "assemble", video |-> AsmTrending(n, k, d)[k], trending |-> AsmTrending(n, k, d),
                  comments |-> Thread(c), include |-> flag]
    /\ ret = NoRet

AsmCall ==
    /\ call.fn = "assemble"
    /\ ret = NoRet
    /\ ret' = [kind |-> "value", value |-> Assemble(call.video, call.trending, call.comments, call.include)]
    /\ UNCHANGED <<call, pageVars>>

AsmNext == AsmCall

AsmSpec == AsmInit /\ [][AsmNext]_vars

(***************************************************************************)
(* The context block of openai_chat_answer (lines 145-151) applied on its  *)
(* own: context lists whose blocks end around 7000 characters.             *)
(***************************************************************************)
MaxBlocks == 3

CtxSnippets ==
    {[source |-> SrcTitle, text |-> Filler(n)] : n \in (context_limit - 6)..(context_limit - 4)}
    \cup {[source |-> SrcTop30, text |-> Filler(3000)]}

CtxInit ==
    /\ PageFrozen
    /\ call \in [fn : {"context_block"}, contexts : SeqsUpTo(CtxSnippets, MaxBlocks)]
    /\ ret = NoRet

CtxCall ==
    /\ call.fn = "context_block"
    /\ ret = NoRet
    /\ ret' = [kind |-> "value", value |-> ContextBlock(call.contexts)]
    /\ UNCHANGED <<call, pageVars>>

CtxNext == CtxCall

CtxSpec == CtxInit /\ [][CtxNext]_vars

(***************************************************************************)
(* What the result of keyword_search_answer is measured against: the words *)
(* of a text read off its positions, and each snippet's rank.              *)
(***************************************************************************)
\* where a word of s begins: a character that is no whitespace, after whitespace
\* or at the beginning
WordStarts(s) == {i \in 1..Len(s) : s[i] \notin Whitespace /\ (i = 1 \/ s[i - 1] \in Whitespace)}

\* where the word beginning at i ends: before the next whitespace, or at the end
WordEnd(s, i) ==
    CHOOSE j \in i..Len(s) :
        /\ \A k \in i..j : s[k] \notin Whitespace
        /\ j = Len(s) \/ s[j + 1] \in Whitespace

WordSet(s) == {SubSeq(s, i, WordEnd(s, i)) : i \in WordStarts(s)}

Trimmed(w) ==
    LET keep == {k \in 1..Len(w) : w[k] \notin Punctuation}
    IN  IF keep = {} THEN <<>>
        ELSE SubSeq(w, CHOOSE a \in keep : \A k \in keep : a <= k,
                       CHOOSE b \in keep : \A k \in keep : b >= k)

\* the question's terms: its words of three characters or more, lowercased
Terms(query) == {Lower(w) : w \in {x \in WordSet(query) : Len(x) >= 3}}

\* how many terms are words of the text
Overlap(terms, text) == Cardinality(terms \cap {Trimmed(Lower(w)) : w \in WordSet(text)})

\* the overlap of each snippet, by position
RECURSIVE Overlaps(_, _)
Overlaps(terms, ctxs) ==
    IF ctxs = <<>> THEN <<>>
    ELSE <<Overlap(terms, Head(ctxs).text)>> \o Overlaps(terms, Tail(ctxs))

Hits(ov) == {i \in DOMAIN ov : ov[i] > 0}

\* 1 for the best hit: higher overlap first, the earlier snippet first among equals
Rank(ov, i) == 1 + Cardinality({j \in Hits(ov) : ov[j] > ov[i] \/ (ov[j] = ov[i] /\ j < i)})

\* the positions rendered, best first
RECURSIVE Shown(_, _)
Shown(ov, r) ==
    IF r > Cardinality(Hits(ov)) \/ r > 5 THEN <<>>
    ELSE <<CHOOSE i \in Hits(ov) : Rank(ov, i) = r>> \o Shown(ov, r + 1)

KwReturned == call.fn = "keyword_search_answer" /\ ret.kind = "value"

\* C8: the result renders exactly the snippets with a positive overlap, best
\* first, the earlier snippet first among equal overlaps, five at most; a
\* snippet without overlap is not rendered.
C8_KeywordRanking ==
    KwReturned =>
        LET ov == Overlaps(Terms(call.query), call.contexts)
            shown == Shown(ov, 1)
        IN  Hits(ov) # {} =>
                ret.value = FoundHeader
                    \o Join(SnippetSeparator, [r \in DOMAIN shown |-> Block(call.contexts[shown[r]])])

\* more than five hits, a better hit after a worse one, two equal hits, and a
\* snippet without overlap
C8_Witness ==
    /\ KwReturned
    /\ LET ov == Overlaps(Terms(call.query), call.contexts)
       IN  /\ Cardinality(Hits(ov)) > 5
           /\ \E i \in DOMAIN ov : ov[i] = 0
           /\ \E i, j \in Hits(ov) : i < j /\ ov[i] < ov[j]
           /\ \E i, j \in Hits(ov) : i < j /\ ov[i] = ov[j]

\* C10: without any overlap the result is the fixed message of line 132,
\* whatever the question and the contexts.
C10_NotFoundIsFixed ==
    KwReturned =>
        LET ov == Overlaps(Terms(call.query), call.contexts)
        IN  Hits(ov) = {} => ret.value = NotFoundMessage

\* a question with a word of three characters, contexts, and no overlap
C10_Witness ==
    /\ KwReturned
    /\ Hits(Overlaps(Terms(call.query), call.contexts)) = {}
    /\ call.contexts # <<>>
    /\ Terms(call.query) # {}
    /\ ret.value = NotFoundMessage

(***************************************************************************)
(* The context assembly measured position by position.                     *)
(***************************************************************************)
AsmReturned == call.fn = "assemble" /\ ret.kind = "value"

SourceOrder == <<SrcTop30, SrcTitle, SrcDesc, SrcComments>>

OrderOf(source) == CHOOSE r \in DOMAIN SourceOrder : SourceOrder[r] = source

\* the snippets of a source in an assembled context
Having(snippets, source) == {i \in DOMAIN snippets : snippets[i].source = source}

\* s holds exactly the characters of line at offset off + 1 ...
HoldsAt(s, off, line) ==
    /\ off + Len(line) <= Len(s)
    /\ \A k \in 1..Len(line) : s[off + k] = line[k]

\* text is the lines "author: text" of the first m comments, a line break between two
RECURSIVE IsCommentLines(_, _, _, _, _)
IsCommentLines(text, off, cmts, i, m) ==
    IF i > m THEN off = Len(text) + 1
    ELSE LET line == cmts[i].author \o <<":", " ">> \o cmts[i].text
         IN  /\ HoldsAt(text, off, line)
             /\ IF i < m
                THEN /\ off + Len(line) + 1 <= Len(text)
                     /\ text[off + Len(line) + 1] = "\n"
                ELSE TRUE
             /\ IsCommentLines(text, off + Len(line) + 1, cmts, i + 1, m)

\* C7: the assembled context has one to four snippets in the order list,
\* title, description, comments; the title always; the list exactly with the
\* flag, and first; the description exactly when it is not empty, cut to its
\* first 2000 characters; the comments exactly when there are some, as the
\* lines of the first ten at most, in their order.
C7_ContextShape ==
    AsmReturned =>
        LET r == ret.value
            desc == call.video.description
        IN  /\ Len(r) \in 1..4
            /\ \A i \in DOMAIN r : r[i].source \in Range(SourceOrder)
            /\ \A i, j \in DOMAIN r : i < j => OrderOf(r[i].source) < OrderOf(r[j].source)
            /\ \E i \in DOMAIN r : r[i].source = SrcTitle /\ r[i].text = call.video.title
            /\ (Having(r, SrcTop30) # {}) = call.include
            /\ call.include => r[1].source = SrcTop30
            /\ (Having(r, SrcDesc) # {}) = (desc # <<>>)
            /\ \A i \in Having(r, SrcDesc) :
                  /\ Len(r[i].text) = Min(2000, Len(desc))
                  /\ \A k \in 1..Len(r[i].text) : r[i].text[k] = desc[k]
            /\ (Having(r, SrcComments) # {}) = (call.comments # <<>>)
            /\ \A i \in Having(r, SrcComments) :
                  IsCommentLines(r[i].text, 0, call.comments, 1, Min(10, Len(call.comments)))

\* all four snippets, from a description of more than 2000 characters and
\* more than ten comments
C7_Witness ==
    /\ AsmReturned
    /\ Len(ret.value) = 4
    /\ Len(call.video.description) > 2000
    /\ Len(call.comments) > 10

(***************************************************************************)
(* The context block measured position by position.                        *)
(***************************************************************************)
CtxReturned == call.fn = "context_block" /\ ret.kind = "value"

BlockLen(ctx) == Len(ctx.source) + 3 + Len(ctx.text)

\* the length of the blocks from the i-th on, two line breaks between two
RECURSIVE LenFrom(_, _)
LenFrom(ctxs, i) ==
    IF i > Len(ctxs) THEN 0
    ELSE BlockLen(ctxs[i]) + (IF i < Len(ctxs) THEN 2 ELSE 0) + LenFrom(ctxs, i + 1)

\* from offset off on, b holds the blocks from the i-th on, each "[source] text"
\* and two line breaks before the next, as far as b reaches
RECURSIVE BlocksHeld(_, _, _, _)
BlocksHeld(b, ctxs, i, off) ==
    IF i > Len(ctxs) \/ off >= Len(b) THEN TRUE
    ELSE LET piece == <<"[">> \o ctxs[i].source \o <<"]", " ">> \o ctxs[i].text
                      \o (IF i < Len(ctxs) THEN <<"\n", "\n">> ELSE <<>>)
             n == Min(Len(piece), Len(b) - off)
         IN  /\ SubSeq(b, off + 1, off + n) = SubSeq(piece, 1, n)
             /\ BlocksHeld(b, ctxs, i + 1, off + Len(piece))

\* C9: the context block has 7000 characters at most, and is the beginning
\* of the blocks "[source] text" joined by blank lines, in their order.
C9_ContextBlockPrefix ==
    CtxReturned =>
        /\ Len(ret.value) <= 7000
        /\ Len(ret.value) = Min(7000, LenFrom(call.contexts, 1))
        /\ BlocksHeld(ret.value, call.contexts, 1, 0)

\* two blocks of more than 7000 characters together, cut within the second
C9_Witness ==
    /\ CtxReturned
    /\ Len(call.contexts) = 2
    /\ LenFrom(call.contexts, 1) > 7000
    /\ BlockLen(call.contexts[1]) + 2 < 7000
    /\ Len(ret.value) = 7000

====
